---- MODULE Spec2Model ----
(***************************************************************************)
(* Model of the FinanceTracker data-access facade (src/src/lib/supabase.ts)*)
(* together with the part of the backend the repository declares itself:   *)
(* the budgets table, its CHECK constraint and its row-level-security      *)
(* policies (src/supabase/migrations/20250611100206_summer_manor.sql).     *)
(*                                                                         *)
(* Encoding.  Money is an integer number of thousandths (10.50 is 10500),  *)
(* so that the two-decimal column type numeric(12,2) is a real conversion. *)
(* Dates and timestamps are integers (day numbers, clock ticks).  A facade *)
(* result { data, error } is a record: error is the backend's error code   *)
(* ("null" when there is none), data is [kind, rows] with kind "null",     *)
(* "single" or "list".  Every entity keeps its key, its owner, its amount  *)
(* column, its date column and created_at; the free-text columns (notes,   *)
(* source, vendor, ...) and updated_at, which no facade function reads,    *)
(* are not carried.                                                        *)
(***************************************************************************)
EXTENDS Integers, Sequences, FiniteSets, TLC

\* Bounds of the model.
MaxRows == 2
MaxRecords == 2

Users == {"A", "B"}
Tables == {"income", "expenses", "investments", "savings", "budgets"}

\* Inputs a caller may pass.
Days == {1, 2}
Amounts == {100}
Limits == {-1000, 0, 4, 10500, 10505}

\* The five entity tables share neither rows nor code paths: every facade function
\* names exactly one table.  A behaviour follows the calls made within one scope.
\* getMonthlyData reads two of them and is followed in a scope of its own.
Scopes == Tables \cup {"user_profiles", "auth", "analytics"}
ScopeTables(sc) == IF sc = "analytics" THEN {"income", "expenses"} ELSE {sc}
ScopeOps(sc) ==
  IF sc = "analytics" THEN {"create"} ELSE {"list", "create", "update", "delete"}

NoError == "null"
NullData == [kind |-> "null", rows |-> <<>>]
Single(row) == [kind |-> "single", rows |-> <<row>>]
ListOf(rows) == [kind |-> "list", rows |-> rows]

VARIABLES scope, db, now, nextId, call, response, result, requests,
          monthly,
          csvPc, csvData, csvFilename, blobs, objectUrls, links, body, downloads, thrown

dbVars == <<db, now, nextId>>
callVars == <<call, response, result, requests>>
monthlyVars == <<monthly>>
csvVars == <<csvPc, csvData, csvFilename, blobs, objectUrls, links, body, downloads, thrown>>
vars == <<scope, dbVars, callVars, monthlyVars, csvVars>>

----------------------------------------------------------------------------
\* Schema: the columns of each entity.

AmountField(t) ==
  CASE t = "budgets" -> "budget_limit"
    [] t = "savings" -> "target_amount"
    [] OTHER -> "amount"

DateField(t) ==
  CASE t = "budgets" -> "start_date"
    [] t = "savings" -> "deadline"
    [] OTHER -> "date"

OrderColumn(t) == IF t \in {"savings", "budgets"} THEN "created_at" ELSE "date"

ServerFields == {"id", "created_at", "updated_at"}

Fields(t) == {"id", "user_id", AmountField(t), DateField(t), "created_at"}

\* numeric(12,2): a value is rounded to two decimals, half away from zero.
Round2(m) == IF m >= 0 THEN ((m + 5) \div 10) * 10 ELSE -(((-m + 5) \div 10) * 10)

ColumnValue(t, f, v) == IF t = "budgets" /\ f = "budget_limit" THEN Round2(v) ELSE v

\* The table without its CHECK clause.
CheckConstraintNone(t, row) == TRUE

CheckConstraint(t, row) == t = "budgets" => row.budget_limit > 0

\* Row-level security of budgets; RlsTables says which tables carry the same policies.
RlsTables == Tables
\* A select policy that lets every user read every row.
SelectPolicyOpen(uid, row) == TRUE

SelectPolicy(uid, row) == uid = row.user_id
InsertPolicy(uid, row) == uid = row.user_id
UpdatePolicy(uid, row) == uid = row.user_id
DeletePolicy(uid, row) == uid = row.user_id

Visible(t, uid, row) == t \in RlsTables => SelectPolicy(uid, row)

----------------------------------------------------------------------------
\* The backend's answer to one request: [table, data, error].

Answer(tbl, data, error) == [table |-> tbl, data |-> data, error |-> error]

PgInsert(t, uid, r) ==
  LET row == [f \in Fields(t) |->
                CASE f = "id" -> nextId
                  [] f = "created_at" -> now
                  [] OTHER -> ColumnValue(t, f, r[f])]
  IN  IF t \in RlsTables /\ ~InsertPolicy(uid, row) THEN Answer(db[t], NullData, "42501")
      ELSE IF ~CheckConstraint(t, row) THEN Answer(db[t], NullData, "23514")
      ELSE Answer(db[t] \cup {row}, Single(row), NoError)

PgUpdate(t, uid, id, p) ==
  LET targets == {row \in db[t] : row.id = id /\ Visible(t, uid, row)
                                  /\ (t \in RlsTables => UpdatePolicy(uid, row))}
  IN  IF DOMAIN p = {} \/ targets = {} THEN Answer(db[t], NullData, "PGRST116")
      ELSE LET old == CHOOSE row \in targets : TRUE
               new == [f \in Fields(t) |->
                         IF f \in DOMAIN p THEN ColumnValue(t, f, p[f]) ELSE old[f]]
           IN  IF t \in RlsTables /\ ~UpdatePolicy(uid, new)
                 THEN Answer(db[t], NullData, "42501")
               ELSE IF ~CheckConstraint(t, new) THEN Answer(db[t], NullData, "23514")
               ELSE IF \E other \in db[t] \ {old} : other.id = new.id
                 THEN Answer(db[t], NullData, "23505")
               ELSE Answer((db[t] \ {old}) \cup {new}, Single(new), NoError)

\* A delete without its .eq('id', id) filter: every row the caller may delete goes.
PgDeleteAllVisible(t, uid, id) ==
  LET targets == {row \in db[t] : Visible(t, uid, row)
                                  /\ (t \in RlsTables => DeletePolicy(uid, row))}
  IN  Answer(db[t] \ targets, NullData, NoError)

PgDelete(t, uid, id) ==
  LET targets == {row \in db[t] : row.id = id /\ Visible(t, uid, row)
                                  /\ (t \in RlsTables => DeletePolicy(uid, row))}
  IN  Answer(db[t] \ targets, NullData, NoError)

\* ORDER BY col ASC.
Ascending(s, col) == \A i \in 1..(Len(s) - 1) : s[i][col] <= s[i + 1][col]

\* ORDER BY col DESC: every arrangement of the rows that is descending in col.
Descending(s, col) == \A i \in 1..(Len(s) - 1) : s[i][col] >= s[i + 1][col]

Arrangements(rows) ==
  {s \in [1..Cardinality(rows) -> rows] : \A i, j \in DOMAIN s : i # j => s[i] # s[j]}

PgSelect(t, uid, userId) ==
  {row \in db[t] : row.user_id = userId /\ Visible(t, uid, row)}

----------------------------------------------------------------------------
\* The facade: one backend request per call, the answer handed back as it is.

Idle == [op |-> "none", table |-> "none", caller |-> "none", userId |-> "none", id |-> 0]

NoAnswer == [data |-> NullData, error |-> NoError]
NoMonthlyResult == [incomeData |-> NullData, expenseData |-> NullData,
                    incomeError |-> NoError, expenseError |-> NoError]

\* A row of user_profiles exists for every registered user.
Profiles == {[id |-> u, name |-> "n1", user_type |-> "freelancer"] : u \in Users}

InitBackend ==
  /\ db = [t \in Tables \cup {"user_profiles"} |->
            IF t = "user_profiles" THEN Profiles ELSE {}]
  /\ now = 1
  /\ nextId = 1
  /\ call = Idle
  /\ response = NoAnswer
  /\ result = NoAnswer
  /\ requests = 0
  /\ monthly = [pc |-> "idle", caller |-> "none", userId |-> "none", requests |-> 0,
                income |-> NoAnswer, expenses |-> NoAnswer, result |-> NoMonthlyResult]

\* The page before any export: no blob, no object URL, no link element.
NoExport ==
  /\ blobs = <<>>
  /\ objectUrls = 0
  /\ links = 0
  /\ body = {}
  /\ downloads = <<>>
  /\ thrown = "none"

InitBrowser ==
  /\ csvPc = "idle"
  /\ csvData = <<>>
  /\ csvFilename = ""
  /\ NoExport

Init ==
  /\ scope \in Scopes
  /\ InitBackend
  /\ InitBrowser

\* A facade that wraps the backend's error in one of its own.
FacadeResultWrapped(ans) ==
  [data |-> ans.data, error |-> IF ans.error = NoError THEN NoError ELSE "wrapped"]

\* const { data, error } = await ...; return { data, error };
FacadeResult(ans) == [data |-> ans.data, error |-> ans.error]

\* const { error } = await ...; return { error };
FacadeErrorOnly(ans) == [data |-> NullData, error |-> ans.error]

AmountInputs(t) == IF t = "budgets" THEN Limits ELSE Amounts
DateInputs(t) == IF t = "budgets" THEN {1} ELSE Days

\* Omit<E, 'id' | 'created_at' | 'updated_at'>
NewRecords(t) ==
  {[f \in Fields(t) \ ServerFields |->
      CASE f = "user_id" -> u [] f = AmountField(t) -> a [] OTHER -> d] :
     u \in Users, a \in AmountInputs(t), d \in DateInputs(t)}

KnownIds == 1..(nextId - 1)

\* Partial<E>: a subset of the columns, id and user_id included.
Partials(t) ==
  {[f \in {} |-> 0]}
    \cup {[f \in {"id"} |-> i] : i \in KnownIds}
    \cup {[f \in {"user_id"} |-> u] : u \in Users}
    \cup {[f \in {AmountField(t)} |-> a] : a \in AmountInputs(t)}
    \cup {[f \in {DateField(t)} |-> d] : d \in DateInputs(t)}

\* list(userId): .from(t).select('*').eq('user_id', userId).order(col, { ascending: false })
List(t, caller, userId) ==
  /\ t \in ScopeTables(scope) /\ "list" \in ScopeOps(scope)
  /\ call' = [Idle EXCEPT !.op = "list", !.table = t, !.caller = caller, !.userId = userId]
  /\ requests' = 1
  /\ \E s \in Arrangements(PgSelect(t, caller, userId)) :
       /\ Descending(s, OrderColumn(t))
       /\ response' = [data |-> ListOf(s), error |-> NoError]
  /\ result' = FacadeResult(response')
  /\ UNCHANGED <<scope, dbVars, monthlyVars, csvVars>>

\* create(record): .from(t).insert([record]).select().single()
Create(t, caller, r) ==
  LET ans == PgInsert(t, caller, r)
  IN  /\ t \in ScopeTables(scope)
      /\ ans.error = NoError => nextId <= MaxRows
      /\ call' = [Idle EXCEPT !.op = "create", !.table = t, !.caller = caller,
                              !.userId = r.user_id]
      /\ requests' = 1
      /\ response' = [data |-> ans.data, error |-> ans.error]
      /\ result' = FacadeResult(response')
      /\ db' = [db EXCEPT ![t] = ans.table]
      /\ nextId' = IF ans.error = NoError THEN nextId + 1 ELSE nextId
      /\ now' = IF ans.error = NoError THEN now + 1 ELSE now
      /\ UNCHANGED <<scope, monthlyVars, csvVars>>

\* update(id, partial): .from(t).update(updates).eq('id', id).select().single()
Update(t, caller, id, p) ==
  LET ans == PgUpdate(t, caller, id, p)
  IN  /\ t \in ScopeTables(scope) /\ "update" \in ScopeOps(scope)
      /\ call' = [Idle EXCEPT !.op = "update", !.table = t, !.caller = caller, !.id = id]
      /\ requests' = 1
      /\ response' = [data |-> ans.data, error |-> ans.error]
      /\ result' = FacadeResult(response')
      /\ db' = [db EXCEPT ![t] = ans.table]
      /\ UNCHANGED <<scope, now, nextId, monthlyVars, csvVars>>

\* delete(id): .from(t).delete().eq('id', id)
Delete(t, caller, id) ==
  LET ans == PgDelete(t, caller, id)
  IN  /\ t \in ScopeTables(scope) /\ "delete" \in ScopeOps(scope)
      /\ call' = [Idle EXCEPT !.op = "delete", !.table = t, !.caller = caller, !.id = id]
      /\ requests' = 1
      /\ response' = [data |-> ans.data, error |-> ans.error]
      /\ result' = FacadeErrorOnly(response')
      /\ db' = [db EXCEPT ![t] = ans.table]
      /\ UNCHANGED <<scope, now, nextId, monthlyVars, csvVars>>

getIncome == \E c \in Users, u \in Users : List("income", c, u)
addIncome ==
  \E c \in Users, r \in NewRecords("income") : Create("income", c, r)
updateIncome ==
  \E c \in Users, i \in KnownIds, p \in Partials("income") :
    Update("income", c, i, p)
deleteIncome ==
  \E c \in Users, i \in KnownIds : Delete("income", c, i)

getExpenses == \E c \in Users, u \in Users : List("expenses", c, u)
addExpense ==
  \E c \in Users, r \in NewRecords("expenses") :
    Create("expenses", c, r)
updateExpense ==
  \E c \in Users, i \in KnownIds, p \in Partials("expenses") :
    Update("expenses", c, i, p)
deleteExpense ==
  \E c \in Users, i \in KnownIds : Delete("expenses", c, i)

getInvestments ==
  \E c \in Users, u \in Users : List("investments", c, u)
addInvestment ==
  \E c \in Users, r \in NewRecords("investments") :
    Create("investments", c, r)
updateInvestment ==
  \E c \in Users, i \in KnownIds, p \in Partials("investments") :
    Update("investments", c, i, p)
deleteInvestment ==
  \E c \in Users, i \in KnownIds : Delete("investments", c, i)

getSavingsGoals == \E c \in Users, u \in Users : List("savings", c, u)
addSavingsGoal ==
  \E c \in Users, r \in NewRecords("savings") :
    Create("savings", c, r)
updateSavingsGoal ==
  \E c \in Users, i \in KnownIds, p \in Partials("savings") :
    Update("savings", c, i, p)
deleteSavingsGoal ==
  \E c \in Users, i \in KnownIds : Delete("savings", c, i)

getBudgets == \E c \in Users, u \in Users : List("budgets", c, u)
addBudget ==
  \E c \in Users, r \in NewRecords("budgets") :
    Create("budgets", c, r)
updateBudget ==
  \E c \in Users, i \in KnownIds, p \in Partials("budgets") :
    Update("budgets", c, i, p)
deleteBudget ==
  \E c \in Users, i \in KnownIds : Delete("budgets", c, i)

\* getExpensesByCategory: .select('category, amount').eq('user_id', userId), unordered.
Project(row, cols) == [f \in cols \cap DOMAIN row |-> row[f]]

Projected(s, cols) == [k \in 1..Len(s) |-> Project(s[k], cols)]

getExpensesByCategory ==
  \E c \in Users, u \in Users :
    /\ "expenses" \in ScopeTables(scope) /\ "list" \in ScopeOps(scope)
    /\ call' = [Idle EXCEPT !.op = "getExpensesByCategory", !.table = "expenses",
                            !.caller = c, !.userId = u]
    /\ requests' = 1
    /\ \E s \in Arrangements(PgSelect("expenses", c, u)) :
         response' = [data |-> ListOf(Projected(s, {"category", "amount"})),
                      error |-> NoError]
    /\ result' = FacadeResult(response')
    /\ UNCHANGED <<scope, dbVars, monthlyVars, csvVars>>

\* user_profiles: a user reads and writes the row whose id is the user's own.
ProfilePolicy(uid, row) == uid = row.id

ProfilePartials ==
  {[f \in {} |-> ""], [f \in {"name"} |-> "n2"], [f \in {"user_type"} |-> "e-commerce"]}

ProfileCall(op, c, u, ans) ==
  /\ scope = "user_profiles"
  /\ call' = [Idle EXCEPT !.op = op, !.table = "user_profiles", !.caller = c, !.userId = u]
  /\ requests' = 1
  /\ response' = [data |-> ans.data, error |-> ans.error]
  /\ result' = FacadeResult(response')
  /\ db' = [db EXCEPT !["user_profiles"] = ans.table]
  /\ UNCHANGED <<scope, now, nextId, monthlyVars, csvVars>>

\* .from('user_profiles').select('*').eq('id', userId).single()
getUserProfile ==
  \E c \in Users, u \in Users :
    LET tbl == db["user_profiles"]
        rows == {row \in tbl : row.id = u /\ ProfilePolicy(c, row)}
    IN  ProfileCall("getUserProfile", c, u,
                    IF rows = {} THEN Answer(tbl, NullData, "PGRST116")
                    ELSE Answer(tbl, Single(CHOOSE row \in rows : TRUE), NoError))

\* .from('user_profiles').update(updates).eq('id', userId).select().single()
updateUserProfile ==
  \E c \in Users, u \in Users, p \in ProfilePartials :
    LET tbl == db["user_profiles"]
        rows == {row \in tbl : row.id = u /\ ProfilePolicy(c, row)}
        old == CHOOSE row \in rows : TRUE
        new == [f \in DOMAIN old |-> IF f \in DOMAIN p THEN p[f] ELSE old[f]]
    IN  ProfileCall("updateUserProfile", c, u,
                    IF DOMAIN p = {} \/ rows = {} THEN Answer(tbl, NullData, "PGRST116")
                    ELSE Answer((tbl \ {old}) \cup {new}, Single(new), NoError))

\* The identity provider answers with a session or user, or with an error.
AuthAnswers(u) ==
  {[data |-> Single([id |-> u]), error |-> NoError],
   [data |-> NullData, error |-> "auth"]}

AuthCall(op, u, ans, res) ==
  /\ scope = "auth"
  /\ call' = [Idle EXCEPT !.op = op, !.caller = u]
  /\ requests' = 1
  /\ response' = ans
  /\ result' = res
  /\ UNCHANGED <<scope, dbVars, monthlyVars, csvVars>>

signUp == \E u \in Users : \E ans \in AuthAnswers(u) : AuthCall("signUp", u, ans, FacadeResult(ans))
signInWithGoogle ==
  \E u \in Users : \E ans \in AuthAnswers(u) :
    AuthCall("signInWithGoogle", u, ans, FacadeResult(ans))
signIn == \E u \in Users : \E ans \in AuthAnswers(u) : AuthCall("signIn", u, ans, FacadeResult(ans))
signOut ==
  \E u \in Users, e \in {NoError, "auth"} :
    AuthCall("signOut", u, [data |-> NullData, error |-> e],
             FacadeErrorOnly([data |-> NullData, error |-> e]))
getCurrentUser ==
  \E u \in Users : \E ans \in AuthAnswers(u) :
    AuthCall("getCurrentUser", u, ans, FacadeResult(ans))

----------------------------------------------------------------------------
\* getMonthlyData: two awaited queries, one after the other.

\* The day six months before today, as a day number.
SixMonthsAgo == 2

\* What the backend may answer to .select('amount, date').eq('user_id', userId)
\* .gte('date', sixMonthsAgo): the rows in any order, or a failure of the request.
QueryAnswers(t, c, u) ==
  {[data |-> ListOf(Projected(s, {"amount", "date"})), error |-> NoError] :
     s \in Arrangements({row \in PgSelect(t, c, u) : row.date >= SixMonthsAgo})}
    \cup {[data |-> NullData, error |-> "unavailable"]}

\* A result that hands each query's error to the other query's field.
MonthlyResultSwapped(inc, exp) ==
  [incomeData |-> inc.data, expenseData |-> exp.data,
   incomeError |-> exp.error, expenseError |-> inc.error]

\* return { incomeData, expenseData, incomeError, expenseError };
MonthlyResult(inc, exp) ==
  [incomeData |-> inc.data, expenseData |-> exp.data,
   incomeError |-> inc.error, expenseError |-> exp.error]

\* The call starts: the income query is issued and awaited.
getMonthlyData ==
  \E c \in Users, u \in Users :
    /\ scope = "analytics"
    /\ monthly.pc \in {"idle", "done"}
    /\ monthly' = [pc |-> "awaitIncome", caller |-> c, userId |-> u, requests |-> 1,
                   income |-> NoAnswer, expenses |-> NoAnswer, result |-> NoMonthlyResult]
    /\ UNCHANGED <<scope, dbVars, callVars, csvVars>>

\* The income query is answered; only then is the expense query issued and awaited.
IncomeAnswered ==
  /\ monthly.pc = "awaitIncome"
  /\ \E ans \in QueryAnswers("income", monthly.caller, monthly.userId) :
       monthly' = [monthly EXCEPT !.pc = "awaitExpense", !.income = ans,
                                  !.requests = monthly.requests + 1]
  /\ UNCHANGED <<scope, dbVars, callVars, csvVars>>

\* The expense query is answered and the four fields are returned.
ExpenseAnswered ==
  /\ monthly.pc = "awaitExpense"
  /\ \E ans \in QueryAnswers("expenses", monthly.caller, monthly.userId) :
       monthly' = [monthly EXCEPT !.pc = "done", !.expenses = ans,
                                  !.result = MonthlyResult(monthly.income, ans)]
  /\ UNCHANGED <<scope, dbVars, callVars, csvVars>>

Next ==
  \/ getIncome \/ addIncome \/ updateIncome \/ deleteIncome
  \/ getExpenses \/ addExpense \/ updateExpense \/ deleteExpense
  \/ getInvestments \/ addInvestment \/ updateInvestment \/ deleteInvestment
  \/ getSavingsGoals \/ addSavingsGoal \/ updateSavingsGoal \/ deleteSavingsGoal
  \/ getBudgets \/ addBudget \/ updateBudget \/ deleteBudget
  \/ getExpensesByCategory
  \/ getUserProfile \/ updateUserProfile
  \/ signUp \/ signInWithGoogle \/ signIn \/ signOut \/ getCurrentUser
  \/ getMonthlyData \/ IncomeAnswered \/ ExpenseAnswered

Spec == Init /\ [][Next]_vars

----------------------------------------------------------------------------
\* exportToCSV.  A string is a sequence of characters; a value is a string, a
\* number (with the text String(value) gives it) or undefined; a record is its
\* key order and its values.

CsvStrings == {<<"x">>, <<"1", ",", "2">>, <<"x", "\n", "y">>}

CsvValues ==
  {[type |-> "string", text |-> t] : t \in CsvStrings}
    \cup {[type |-> "number", text |-> <<"7">>]}

Undefined == [type |-> "undefined", text |-> <<>>]

KeyLists == {<<"a">>, <<"a", "b">>}

Range(f) == {f[x] : x \in DOMAIN f}

CsvRecords ==
  UNION {{[keys |-> ks, at |-> f] : f \in [Range(ks) -> CsvValues]} : ks \in KeyLists}

CsvInputs == UNION {[1..n -> CsvRecords] : n \in 0..MaxRecords}

Filenames == {"f.csv", "export.csv"}

\* array.join(sep): null and undefined elements give the empty string.
RECURSIVE Join(_, _)
Join(texts, sep) ==
  IF Len(texts) = 0 THEN <<>>
  ELSE IF Len(texts) = 1 THEN texts[1]
  ELSE texts[1] \o sep \o Join(Tail(texts), sep)

\* row[header]
Get(row, header) == IF header \in DOMAIN row.at THEN row.at[header] ELSE Undefined

\* A field rule that quotes every string.
CsvFieldQuoteAll(value) ==
  IF value.type = "string" THEN <<"\"">> \o value.text \o <<"\"">> ELSE value.text

\* typeof value === 'string' && value.includes(',') ? `"${value}"` : value
CsvField(value) ==
  IF value.type = "string" /\ "," \in Range(value.text)
    THEN <<"\"">> \o value.text \o <<"\"">>
    ELSE value.text

\* Object.keys(data[0])
Headers(data) == data[1].keys

CsvContent(data) ==
  LET headers == Headers(data)
      line(row) == Join([h \in 1..Len(headers) |-> CsvField(Get(row, headers[h]))], <<",">>)
  IN  Join(<<Join([h \in 1..Len(headers) |-> <<headers[h]>>], <<",">>)>>
             \o [k \in 1..Len(data) |-> line(data[k])],
           <<"\n">>)

\* exportToCSV without its early return.
EmptyListNever(data) == FALSE

\* if (data.length === 0) return;
EmptyList(data) == Len(data) = 0

exportToCSV ==
  /\ csvPc = "ready"
  /\ csvPc' = "returned"
  /\ IF EmptyList(csvData)
       THEN UNCHANGED <<blobs, objectUrls, links, body, downloads, thrown>>
     ELSE IF Len(csvData) = 0
       \* Object.keys(undefined) throws
       THEN /\ thrown' = "TypeError"
            /\ UNCHANGED <<blobs, objectUrls, links, body, downloads>>
     ELSE LET content == CsvContent(csvData)
              blob == [content |-> content, type |-> "text/csv;charset=utf-8;"]
              url == objectUrls + 1
              link == [href |-> url, download |-> csvFilename, visibility |-> "hidden"]
          IN  /\ blobs' = Append(blobs, blob)
              /\ links' = links + 1
              /\ objectUrls' = url
              \* appendChild, click, removeChild
              /\ downloads' = Append(downloads,
                                     [filename |-> link.download, content |-> blob.content])
              /\ body' = (body \cup {link}) \ {link}
              /\ UNCHANGED thrown
  /\ UNCHANGED <<csvData, csvFilename, scope, dbVars, callVars, monthlyVars>>

\* One call of exportToCSV on any list of records under any file name.
InitCsv ==
  /\ scope = "export"
  /\ InitBackend
  /\ csvPc = "ready"
  /\ csvData \in CsvInputs
  /\ csvFilename \in Filenames
  /\ NoExport

NextCsv == exportToCSV

SpecCsv == InitCsv /\ [][NextCsv]_vars

----------------------------------------------------------------------------
\* Claims about the entity functions.

RowsOf(res) == {res.data.rows[k] : k \in 1..Len(res.data.rows)}

\* C1: a list, update or delete call made by one user never returns, changes or
\* removes a record of another user: what it returns holds only the caller's
\* records, and every record the caller does not own is the same after the call.
C1_OwnerIsolation ==
  [][call'.op \in {"list", "update", "delete"} =>
       /\ \A row \in RowsOf(result') : row.user_id = call'.caller
       /\ \A t \in Tables :
            {row \in db'[t] : row.user_id # call'.caller}
              = {row \in db[t] : row.user_id # call'.caller}]_vars

\* C1 witness: an update addressed the id of a record of another user and was
\* answered "no row".
C1_Witness ==
  /\ call.op = "update"
  /\ result.error = "PGRST116"
  /\ \E row \in db[call.table] : row.id = call.id /\ row.user_id # call.caller

\* C2: a successful update(id, p) changes only the fields named in p on the
\* record with that id; the fields p does not name and the primary key id keep
\* their values, and every other record is unchanged.
C2_UpdateFrame ==
  [][\A p \in Partials(call'.table) :
       (/\ call'.op = "update"
        /\ Update(call'.table, call'.caller, call'.id, p)
        /\ result'.error = NoError)
       => LET t == call'.table
              i == call'.id
          IN  /\ \A row \in db[t] : row.id # i => row \in db'[t]
              /\ Cardinality(db'[t]) = Cardinality(db[t])
              /\ \A old \in db[t] : old.id = i =>
                   \E new \in db'[t] :
                     /\ new.id = i
                     /\ \A f \in Fields(t) \ DOMAIN p : new[f] = old[f]]_vars

\* The frame of C2 for the updates that do not name id.
C2_FrameWhenIdNotNamed ==
  [][\A p \in Partials(call'.table) :
       (/\ call'.op = "update"
        /\ "id" \notin DOMAIN p
        /\ Update(call'.table, call'.caller, call'.id, p)
        /\ result'.error = NoError)
       => LET t == call'.table
              i == call'.id
          IN  /\ \A row \in db[t] : row.id # i => row \in db'[t]
              /\ Cardinality(db'[t]) = Cardinality(db[t])
              /\ \A old \in db[t] : old.id = i =>
                   \E new \in db'[t] :
                     /\ new.id = i
                     /\ \A f \in Fields(t) \ DOMAIN p : new[f] = old[f]]_vars

\* A record is valid when its values are values of the column types: an amount
\* of budgets has at most two decimals.
TwoDecimals(t, r) == t = "budgets" => r.budget_limit % 10 = 0

Matches(row, r) == \A f \in DOMAIN r : row[f] = r[f]

C4_DeletedStaysGone ==
  [][(/\ call.op = "delete"
      /\ result.error = NoError
      /\ \A row \in db[call.table] : row.id # call.id)
     => /\ \A row \in db'[call.table] : row.id # call.id
        /\ \A row \in RowsOf(result') : row.id # call.id
        /\ (call'.op \in {"update", "delete"} /\ call'.id = call.id)
             => /\ result'.data = NullData
                /\ result'.error \in {NoError, "PGRST116"}]_vars

\* C5: every stored budget has budget_limit > 0; an addBudget or updateBudget by
\* the owner that would store a limit of 0 or less (below half a cent, once
\* rounded to the column's two decimals) fails with the check violation 23514
\* and leaves the table as it was; a limit of 10.50 is stored and returned as
\* 10.50.
C5_PositiveLimit ==
  [][/\ \A row \in db'["budgets"] : row.budget_limit > 0
     /\ (call'.table = "budgets" /\ call'.op = "create" /\ call'.caller = call'.userId)
          => \A r \in NewRecords("budgets") :
               Create("budgets", call'.caller, r)
                 => /\ r.budget_limit < 5
                         => result'.error = "23514" /\ db' = db
                    /\ r.budget_limit = 10500
                         => /\ result'.error = NoError
                            /\ \E row \in db'["budgets"] \ db["budgets"] :
                                 /\ row.budget_limit = 10500
                                 /\ result'.data = Single(row)
     /\ (/\ call'.table = "budgets"
         /\ call'.op = "update"
         /\ \E row \in db["budgets"] : row.id = call'.id /\ row.user_id = call'.caller)
          => \A p \in Partials("budgets") :
               (Update("budgets", call'.caller, call'.id, p) /\ DOMAIN p = {"budget_limit"})
                 => /\ p.budget_limit < 5
                         => result'.error = "23514" /\ db' = db
                    /\ p.budget_limit = 10500
                         => /\ result'.error = NoError
                            /\ \E row \in db'["budgets"] :
                                 /\ row.id = call'.id
                                 /\ row.budget_limit = 10500
                                 /\ result'.data = Single(row)]_vars

\* C5 witness: an addBudget by the owner was refused with the check violation.
C5_Witness ==
  /\ call.op = "create"
  /\ call.table = "budgets"
  /\ call.caller = call.userId
  /\ result.error = "23514"

\* The column each list is ordered by.
DesignatedColumn(t) ==
  CASE t \in {"income", "expenses", "investments"} -> "date"
    [] t \in {"savings", "budgets"} -> "created_at"

\* C7: list(userId) called by that user returns exactly the stored records whose
\* user_id is userId, each once, in descending order of the designated column.
C7_ListOwnOrdered ==
  (call.op = "list" /\ call.caller = call.userId /\ result.error = NoError)
    => LET rows == result.data.rows
           col == DesignatedColumn(call.table)
       IN  /\ RowsOf(result) = {row \in db[call.table] : row.user_id = call.userId}
           /\ \A j, k \in 1..Len(rows) : j # k => rows[j] # rows[k]
           /\ \A k \in 1..(Len(rows) - 1) : rows[k][col] >= rows[k + 1][col]

\* C7 witness: a list of two records that differ in the designated column.
C7_Witness ==
  /\ call.op = "list"
  /\ call.caller = call.userId
  /\ Len(result.data.rows) >= 2
  /\ result.data.rows[1][DesignatedColumn(call.table)]
       > result.data.rows[2][DesignatedColumn(call.table)]

----------------------------------------------------------------------------
\* Claims about error handling and getMonthlyData.

\* C6 as stated: every facade function hands the backend's error back unchanged
\* in the error field of its result, issues no further backend request for that
\* call once a request was answered with an error, and leaves the stored records
\* as they were.
C6_NoRequestAfterError ==
  [][/\ result'.error = response'.error
     /\ requests' <= 1
     /\ (monthly'.pc = "done" =>
           /\ monthly'.result.incomeError = monthly'.income.error
           /\ monthly'.result.expenseError = monthly'.expenses.error)
     /\ ((call' # call \/ result' # result) /\ response'.error # NoError => db' = db)
     /\ (monthly' # monthly => db' = db)
     /\ (monthly'.income.error # NoError => monthly'.requests = 1)]_vars

\* C6, amended: every facade function hands the backend's error back unchanged
\* in the error field of its result, repeats no request (a single-request
\* function issues one request, getMonthlyData issues each of its two queries
\* once, the expense query also after an error of the income query), and leaves
\* the stored records as they were.
C6_ErrorPassThrough ==
  [][/\ result'.error = response'.error
     /\ requests' <= 1
     /\ (monthly'.pc = "done" =>
           /\ monthly'.result.incomeError = monthly'.income.error
           /\ monthly'.result.expenseError = monthly'.expenses.error)
     /\ ((call' # call \/ result' # result) /\ response'.error # NoError => db' = db)
     /\ (monthly' # monthly => db' = db)
     /\ monthly'.requests <= 2
     /\ (monthly'.pc = "awaitExpense" => monthly'.requests = 2)]_vars

\* C6 witness: the income query of getMonthlyData was answered with an error and
\* the expense query has been issued.
C6_Witness ==
  /\ monthly.pc = "awaitExpense"
  /\ monthly.income.error # NoError
  /\ monthly.requests = 2

\* C10 as stated: the two queries of getMonthlyData are parallel calls: while the
\* income query is awaited the expense query has been issued too.
C10_ParallelQueries == monthly.pc = "awaitIncome" => monthly.requests = 2

\* C10, amended: the expense query is issued only after the income query was
\* answered, so the income query always completes first; either query may fail
\* while the other succeeds, and the result carries each query's own data and
\* error.
C10_SequentialQueries ==
  /\ monthly.pc = "awaitIncome" => monthly.requests = 1 /\ monthly.expenses = NoAnswer
  /\ monthly.pc = "awaitExpense" => monthly.requests = 2 /\ monthly.expenses = NoAnswer
  /\ monthly.pc = "done" =>
       /\ monthly.result.incomeData = monthly.income.data
       /\ monthly.result.incomeError = monthly.income.error
       /\ monthly.result.expenseData = monthly.expenses.data
       /\ monthly.result.expenseError = monthly.expenses.error

\* C10 witness: the income query failed, the expense query succeeded, and the
\* result carries the error of the one and the rows of the other.
C10_Witness ==
  /\ monthly.pc = "done"
  /\ monthly.result.incomeError # NoError
  /\ monthly.result.expenseError = NoError
  /\ monthly.result.expenseData.kind = "list"
  /\ Len(monthly.result.expenseData.rows) > 0

----------------------------------------------------------------------------
\* Claims about exportToCSV.

\* The lines of a text: the pieces between its line breaks.
RECURSIVE Lines(_)
Lines(text) ==
  IF \A i \in DOMAIN text : text[i] # "\n" THEN <<text>>
  ELSE LET k == CHOOSE i \in DOMAIN text :
                  text[i] = "\n" /\ \A j \in 1..(i - 1) : text[j] # "\n"
       IN  <<SubSeq(text, 1, k - 1)>> \o Lines(SubSeq(text, k + 1, Len(text)))

Rendered(v) ==
  IF v.type = "string" /\ (\E i \in DOMAIN v.text : v.text[i] = ",")
    THEN <<"\"">> \o v.text \o <<"\"">>
    ELSE v.text

\* The header line and one line per record, in list order.
ExpectedLines(data) ==
  LET names == data[1].keys
  IN  <<Join([h \in 1..Len(names) |-> <<names[h]>>], <<",">>)>>
        \o [k \in 1..Len(data) |->
              Join([h \in 1..Len(names) |-> Rendered(Get(data[k], names[h]))], <<",">>)]

NoLineBreaks(data) ==
  \A k \in 1..Len(data) : \A h \in DOMAIN data[k].at :
    \A i \in DOMAIN data[k].at[h].text : data[k].at[h].text[i] # "\n"

Example ==
  <<[keys |-> <<"a", "b">>,
     at |-> [h \in {"a", "b"} |->
               [type |-> "string", text |-> IF h = "a" THEN <<"1", ",", "2">> ELSE <<"x">>]]]>>

ExampleText == <<"a", ",", "b", "\n", "\"", "1", ",", "2", "\"", ",", "x">>

Exported == csvPc = "returned" /\ Len(csvData) > 0

\* C8 as stated: for every non-empty list the exported text is the header line
\* followed by one line per record, each holding the record's values in header
\* order, quoted exactly when a string with a comma.
C8_OneLinePerRecord ==
  Exported =>
    /\ Len(downloads) = 1
    /\ Lines(downloads[1].content) = ExpectedLines(csvData)

\* C8, amended: for every non-empty list whose values hold no line break the
\* exported text is the header line followed by one line per record, each
\* holding the record's values in header order, quoted exactly when a string
\* with a comma; for [{a:"1,2", b:"x"}] it is the two lines a,b and "1,2",x.
C8_CsvText ==
  Exported =>
    /\ Len(downloads) = 1
    /\ downloads[1].content = blobs[1].content
    /\ NoLineBreaks(csvData) => Lines(downloads[1].content) = ExpectedLines(csvData)
    /\ csvData = Example => downloads[1].content = ExampleText

\* C8 witness: the example list has been exported.
C8_Witness == Exported /\ csvData = Example /\ Len(downloads) = 1

\* C9: exportToCSV on an empty list, under any file name, creates no blob, no
\* object URL and no link element, triggers no download, leaves the document
\* as it was and raises no error.
C9_EmptyNoAction ==
  (csvPc = "returned" /\ Len(csvData) = 0) =>
    /\ blobs = <<>>
    /\ objectUrls = 0
    /\ links = 0
    /\ downloads = <<>>
    /\ body = {}
    /\ thrown = "none"

\* C9 witness: exportToCSV has returned from a call with the empty list.
C9_Witness == csvPc = "returned" /\ csvData = <<>> /\ csvFilename = "export.csv"

============================================================================
